---- MODULE Spec2Model ----
(***************************************************************************)
(* Model of the wagmi CLI plugins in packages/cli/src/plugins/fetch.ts:    *)
(*   - fetch():   ABIs over the network with a disk cache fallback         *)
(*   - hardhat(): ABIs from Hardhat artifacts, with clean/build commands   *)
(*                and watch mode (rebuild command, onAdd/onChange/onRemove)*)
(* The specifications share the variables: SpecFetch, SpecFetchOverlap,    *)
(* SpecFetchLong, SpecHardhat, SpecIncremental, SpecValidate and SpecWatch;*)
(* each leaves the other parts' variables unchanged.                       *)
(***************************************************************************)
EXTENDS Integers, Sequences, FiniteSets, TLC

VARIABLES
    \* ---- fetch plugin ----
    contractConfigs, \* the `contracts` option: sequence of [name, address]
    cache,           \* cacheDir: cache key -> file content (NoFile when absent)
    fpc,             \* position of the running contracts() call
    idx,             \* index of the contract the for-loop is processing
    abi,             \* the loop's `abi` variable
    contracts,       \* the `contracts` array built by the running call
    caught,          \* the `error` bound by the catch clause for this contract
    thrown,          \* the error contracts() rejected with ("none" otherwise)
    step,            \* what happened to the contract processed last
    callLog,         \* per processed contract of this call: "live" or "fallback"
    prev,            \* ABIs returned by the previous call when it was all-live
    entryLog,        \* cache as it was when the running call started
    \* ---- hardhat plugin ----
    commands,        \* the `commands` option: [clean, build, rebuild]
    namePrefix,      \* the `namePrefix` option
    exclude,         \* the `exclude` option (glob patterns)
    artifactsExists, \* fse.pathExistsSync(artifactsDirectory)
    artifactsDir,    \* files present under artifactsDirectory (indices of Files)
    hpc,             \* position of the running hardhat contracts() call
    cleanState,      \* the clean command: "none", "running", "ok", "failed"
    buildState,      \* the build command: "none", "running", "ok", "failed"
    sawDir,          \* what the pathExistsSync check found in this call
    scanned,         \* files present when the artifact scan ran
    returned,        \* what hardhat contracts() returned (NoResult otherwise)
    hook,            \* the last watch hook call and what it returned
    \* ---- hardhat watch.command ----
    alive,           \* the process has not been terminated
    wpc,             \* position of the watch command
    watcher,         \* the chokidar watcher: "none", "open", "closed"
    handler,         \* a listener for 'all' is attached to the watcher
    listeners,       \* process listeners per signal: "none", "once", "on"
    fired,           \* per signal: how often its shutdown listener was called
    removed,         \* per signal: how often its listener was removed
    closeCalls,      \* how often watcher.close() was called
    closeThrew,      \* a call of watcher.close() threw
    delivered,       \* per event kind: events delivered to the 'all' listener
    rebuildStarted,  \* rebuild commands started by the listener
    rebuildRunning,  \* rebuild commands started and not yet exited
    rebuildCommand,  \* the command line the listener runs
    signals,         \* signals sent to the process so far
    ran,             \* the command lines the 'all' listener has started
    \* ---- fetch plugin: history, and a second overlapping call ----
    lastLive,        \* per cache key: the ABI fetched live last, and for whom
    bpc,             \* position of a second, overlapping contracts() call
    bidx,            \* the second call's loop index
    babi,            \* the second call's `abi` variable
    \* ---- hardhat validate() ----
    vpc,             \* position of validate()
    probed,          \* the `hardhat --version` probe: "no", "running", "ok", "failed"
    packageManager,  \* what getPackageManager() resolved with in validate()
    vthrown,         \* the error validate() rejected with ("none" otherwise)
    \* ---- the generated contract set kept up to date by the watch hooks ----
    tracked          \* the contract records by name (NoTracked before a pass)

vars == <<contractConfigs, cache, fpc, idx, abi, contracts, caught, thrown,
          step, callLog, prev, entryLog,
          commands, namePrefix, exclude, artifactsExists, artifactsDir, hpc,
          cleanState, buildState, sawDir, scanned, returned, hook,
          alive, wpc, watcher, handler, listeners, fired, removed, closeCalls,
          closeThrew, delivered, rebuildStarted, rebuildRunning, rebuildCommand,
          signals, ran, lastLive, bpc, bidx, babi, vpc, probed, packageManager,
          vthrown, tracked>>

fvars == <<contractConfigs, cache, fpc, idx, abi, contracts, caught, thrown,
           step, callLog, prev, entryLog>>

hvars == <<commands, namePrefix, exclude, artifactsExists, artifactsDir, hpc,
           cleanState, buildState, sawDir, scanned, returned, hook>>

wvars == <<alive, wpc, watcher, handler, listeners, fired, removed, closeCalls,
           closeThrew, delivered, rebuildStarted, rebuildRunning, rebuildCommand,
           signals>>

ovars == <<bpc, bidx, babi>>
vvars == <<vpc, probed, packageManager, vthrown>>
tvars == <<tracked>>
nvars == <<ovars, vvars, tvars>>

(***************************************************************************)
(* Bounds of the model.                                                    *)
(***************************************************************************)
MaxContracts == 2
\* Contracts of the configurations of SpecFetchLong.
LongConfig == 3
\* File-system events and signals the environment sends in one run.
MaxEvents == 3
MaxSignals == 3

(***************************************************************************)
(* Values.                                                                 *)
(***************************************************************************)
\* An ABI is a sequence of item descriptors; [] is a (truthy) ABI as well.
Abis == { <<>>, <<"f">>, <<"f", "g">> }
NoAbi == <<"<undefined>">>

\* ContractConfig['address']: a string, a chainId -> address map, or undefined.
Addresses ==
    { [type |-> "string", value |-> "0xA"],
      [type |-> "string", value |-> "0xB"],
      [type |-> "object", value |-> "0xA"],
      [type |-> "undefined", value |-> ""] }

Names == <<"A", "B", "C", "D">>

\* Configurations: 1..MaxContracts contracts, the i-th one named Names[i].
RECURSIVE ConfigsOfLen(_)
ConfigsOfLen(n) ==
    IF n = 0 THEN { <<>> }
    ELSE { Append(c, [name |-> Names[n], address |-> a]) :
             c \in ConfigsOfLen(n - 1), a \in Addresses }

Configs == UNION { ConfigsOfLen(n) : n \in 1..MaxContracts }

\* JSON.stringify(contract.address) as it ends up in the template literal
\* `${cacheDir}/${cacheKey}.json`: undefined stringifies to undefined, which
\* the template prints as "undefined".
JSONstringifyAddress(address) ==
    IF address.type = "undefined" THEN "undefined"
    ELSE IF address.type = "object" THEN "{\"1\":\"" \o address.value \o "\"}"
    ELSE "\"" \o address.value \o "\""

getCacheKey(contract) ==
    IF contract.address.type = "string"
    THEN contract.address.value
    ELSE JSONstringifyAddress(contract.address)

CacheKeys == { getCacheKey([name |-> "A", address |-> a]) : a \in Addresses }

\* fse.writeJSON / fse.readJSON: the file holds the JSON text of the value.
NoFile == <<>>
writeJSON(value) == <<"[">> \o value \o <<"]">>
readJSON(content) == SubSeq(content, 2, Len(content) - 1)

FileContents == { writeJSON(a) : a \in Abis }

\* JavaScript truthiness of what readJSON returned: every array is truthy.
Truthy(value) == value # NoAbi

NoStep == [i |-> 0, fail |-> "none", read |-> FALSE, hit |-> FALSE,
           cached |-> NoAbi, outcome |-> "none", wrote |-> FALSE]

NoPrev == <<NoAbi>>

\* The entries found in the cache directory were fetched live by earlier
\* runs, for a contract not known any more.
LiveOf(c) ==
    [k \in DOMAIN c |->
        [abi |-> IF c[k] = NoFile THEN NoAbi ELSE readJSON(c[k]), by |-> ""]]

AbisOf(cs) == [i \in 1..Len(cs) |-> cs[i].abi]

(***************************************************************************)
(* hardhat(): configuration and the artifacts directory                    *)
(***************************************************************************)
Undefined == "<undefined>"
False == "<false>"

\* A command option: left out, false, or a command line ('' is a string too).
CommandSettings == { Undefined, False, "", "make artifacts" }

\* A glob pattern under `${artifactsDirectory}/**/`: '*' followed by a fixed
\* suffix of dot-separated segments, or everything below a directory.
Star(segs) == [kind |-> "star", segs |-> segs, dir |-> ""]
Below(dir) == [kind |-> "below", segs |-> <<>>, dir |-> dir]

defaultExcludes == << Below("build-info"), Star(<<"dbg", "json">>) >>
include == << Star(<<"json">>) >>

\* The files a Hardhat project can have under its artifacts directory: the
\* directories of the path, the file name split at its dots, and the JSON.
Files ==
    << [dir |-> <<"contracts", "A.sol">>, file |-> <<"A", "json">>,
        json |-> [contractName |-> "A", abi |-> <<"f">>]],
       [dir |-> <<"contracts", "A.sol">>, file |-> <<"A", "dbg", "json">>,
        json |-> [contractName |-> Undefined, abi |-> NoAbi]],
       [dir |-> <<"contracts", "I.sol">>, file |-> <<"I", "json">>,
        json |-> [contractName |-> "I", abi |-> <<>>]],
       [dir |-> <<"contracts", "lib", "A.sol">>, file |-> <<"A", "json">>,
        json |-> [contractName |-> "A", abi |-> <<"g">>]],
       [dir |-> <<"build-info">>, file |-> <<"abc", "json">>,
        json |-> [contractName |-> Undefined, abi |-> NoAbi]],
       [dir |-> <<"contracts", "B.sol">>, file |-> <<"Renamed", "json">>,
        json |-> [contractName |-> "B", abi |-> <<"f", "g">>]] >>

Paths == 1..Len(Files)
AllPaths == [i \in Paths |-> i]

RECURSIVE Join(_)
\* The segments of a file name joined with dots.
Join(segs) ==
    IF Len(segs) = 0 THEN ""
    ELSE IF Len(segs) = 1 THEN segs[1]
    ELSE segs[1] \o "." \o Join(Tail(segs))

\* minimatch of one pattern against a file below the artifacts directory.
MatchesGlob(pattern, f) ==
    IF pattern.kind = "below"
    THEN \E k \in 1..Len(f.dir) : f.dir[k] = pattern.dir
    ELSE /\ Len(f.file) > Len(pattern.segs)
         /\ SubSeq(f.file, Len(f.file) - Len(pattern.segs) + 1, Len(f.file))
               = pattern.segs

\* globby([...include, ...exclude.map((x) => `!...`)])
Globbed(i) ==
    /\ \E k \in 1..Len(include) : MatchesGlob(include[k], Files[i])
    /\ ~ \E k \in 1..Len(exclude) : MatchesGlob(exclude[k], Files[i])

getArtifactPaths(present) ==
    SelectSeq(AllPaths, LAMBDA i : i \in present /\ Globbed(i))

\* `${namePrefix}${artifact.contractName}`: an absent contractName prints as
\* "undefined".
getContractName(artifact) ==
    namePrefix \o (IF artifact.contractName = Undefined
                   THEN "undefined" ELSE artifact.contractName)

getContract(i) ==
    [abi |-> Files[i].json.abi, name |-> getContractName(Files[i].json)]

\* Variant: only a missing abi is skipped (`if (!contract.abi) continue`).
HasAbiMissingOnly(c) == c.abi # NoAbi

\* `!contract.abi?.length` is false: the abi is there and not empty.
HasAbi(c) == c.abi # NoAbi /\ Len(c.abi) > 0

\* The loop of contracts() over the artifact paths.
ScanContracts(present) ==
    LET paths == getArtifactPaths(present)
        all == [k \in 1..Len(paths) |-> getContract(paths[k])]
    IN SelectSeq(all, HasAbi)

\* JavaScript truthiness of a resolved command, `if (clean)` / `if (build)`.
TruthyCommand(c) == c # False /\ c # ""

\* `commands.clean ?? default`
Resolved(setting, default) == IF setting = Undefined THEN default ELSE setting

NoResult == << [abi |-> NoAbi, name |-> "<no result>"] >>
NoHook == [kind |-> "none", path |-> 0, result |-> "", threw |-> FALSE,
           contract |-> [abi |-> NoAbi, name |-> ""]]

HardhatIdle ==
    /\ commands = [clean |-> Undefined, build |-> Undefined, rebuild |-> Undefined]
    /\ namePrefix = ""
    /\ exclude = defaultExcludes
    /\ artifactsExists = FALSE
    /\ artifactsDir = {}
    /\ hpc = "idle"
    /\ cleanState = "none"
    /\ buildState = "none"
    /\ sawDir = "unknown"
    /\ scanned = {}
    /\ returned = NoResult
    /\ hook = NoHook

Signals == {"SIGINT", "SIGTERM"}
\* The event names chokidar passes to a listener for 'all'.
EventKinds == {"add", "addDir", "change", "unlink", "unlinkDir"}

\* No generation pass has produced a contract set yet.
NoTracked == { [abi |-> NoAbi, name |-> "<no pass>"] }

WatchIdle ==
    /\ alive = TRUE
    /\ wpc = "idle"
    /\ watcher = "none"
    /\ handler = FALSE
    /\ listeners = [s \in Signals |-> "none"]
    /\ fired = [s \in Signals |-> 0]
    /\ removed = [s \in Signals |-> 0]
    /\ closeCalls = 0
    /\ closeThrew = FALSE
    /\ delivered = [k \in EventKinds |-> 0]
    /\ rebuildStarted = 0
    /\ rebuildRunning = 0
    /\ rebuildCommand = ""
    /\ signals = 0
    /\ ran = {}
    /\ bpc = "idle"
    /\ bidx = 0
    /\ babi = NoAbi
    /\ vpc = "idle"
    /\ probed = "no"
    /\ packageManager = Undefined
    /\ vthrown = "none"
    /\ tracked = NoTracked

HardhatInit ==
    /\ commands \in [clean : CommandSettings, build : CommandSettings,
                     rebuild : {Undefined}]
    /\ namePrefix \in {"", "Pre"}
    /\ exclude \in {defaultExcludes, <<>>}
    /\ artifactsExists \in BOOLEAN
    /\ artifactsDir \in SUBSET Paths
    /\ ~artifactsExists => artifactsDir = {}
    /\ hpc = "idle"
    /\ cleanState = "none"
    /\ buildState = "none"
    /\ sawDir = "unknown"
    /\ scanned = {}
    /\ returned = NoResult
    /\ hook = NoHook

(***************************************************************************)
(* fetch(): contracts()                                                    *)
(***************************************************************************)
FetchInit ==
    /\ contractConfigs \in Configs
    /\ cache \in [CacheKeys -> FileContents \cup {NoFile}]
    /\ \A k \in CacheKeys :
         (\A i \in 1..Len(contractConfigs) : getCacheKey(contractConfigs[i]) # k)
            => cache[k] = NoFile
    /\ fpc = "idle"
    /\ idx = 0
    /\ abi = NoAbi
    /\ contracts = <<>>
    /\ caught = "none"
    /\ thrown = "none"
    /\ step = NoStep
    /\ callLog = <<>>
    /\ prev = NoPrev
    /\ entryLog = cache
    /\ lastLive = LiveOf(cache)

contract == contractConfigs[idx]
cacheKey == getCacheKey(contract)

\* The call that just ended returned a list obtained from live fetches only.
AllLive == fpc = "done" /\ \A i \in 1..Len(callLog) : callLog[i] = "live"
AllFallback == \A i \in 1..Len(callLog) : callLog[i] = "fallback"

\* contracts() is invoked (a new `contracts` array, the loop at its start).
ContractsStart ==
    /\ UNCHANGED <<hvars, wvars, nvars, ran, lastLive>>
    /\ fpc \in {"idle", "done", "failed"}
    /\ prev' = IF AllLive THEN AbisOf(contracts) ELSE NoPrev
    /\ fpc' = "request"
    /\ idx' = 1
    /\ abi' = NoAbi
    /\ contracts' = <<>>
    /\ caught' = "none"
    /\ thrown' = "none"
    /\ step' = NoStep
    /\ callLog' = <<>>
    /\ entryLog' = cache
    /\ UNCHANGED <<contractConfigs, cache>>

\* `await request(contract)` and getCacheKey; `let abi`.
RequestReturns ==
    /\ UNCHANGED <<hvars, wvars, nvars, ran, lastLive>>
    /\ fpc = "request"
    /\ fpc' = "fetch"
    /\ abi' = NoAbi
    /\ caught' = "none"
    /\ step' = [NoStep EXCEPT !.i = idx]
    /\ UNCHANGED <<contractConfigs, cache, idx, contracts, thrown, callLog,
                   prev, entryLog>>

\* request() is outside the try block: its error rejects contracts().
RequestThrows ==
    /\ UNCHANGED <<hvars, wvars, nvars, ran, lastLive>>
    /\ fpc = "request"
    /\ fpc' = "failed"
    /\ thrown' = "request"
    /\ step' = [NoStep EXCEPT !.i = idx, !.outcome = "threw"]
    /\ UNCHANGED <<contractConfigs, cache, idx, abi, contracts, caught,
                   callLog, prev, entryLog>>

\* `await nodeFetch(url, init)` resolves.
NodeFetchResolves ==
    /\ UNCHANGED <<hvars, wvars, nvars, ran, lastLive>>
    /\ fpc = "fetch"
    /\ fpc' = "parse"
    /\ UNCHANGED <<contractConfigs, cache, idx, abi, contracts, caught,
                   thrown, step, callLog, prev, entryLog>>

\* Variant: parse() called after the try block, so its error escapes at once.
OnTryErrorParseEscapes(error) ==
    IF error = "parse"
    THEN [fpc |-> "failed", caught |-> error, thrown |-> error]
    ELSE [fpc |-> "cacheRead", caught |-> error, thrown |-> "none"]

\* Where control goes when a step inside the try block throws `error`.
OnTryError(error) == [fpc |-> "cacheRead", caught |-> error, thrown |-> "none"]

\* `await nodeFetch(url, init)` rejects: the catch clause is entered.
NodeFetchRejects ==
    LET to == OnTryError("network") IN
    /\ UNCHANGED <<hvars, wvars, nvars, ran, lastLive>>
    /\ fpc = "fetch"
    /\ fpc' = to.fpc
    /\ caught' = to.caught
    /\ thrown' = to.thrown
    /\ step' = [step EXCEPT !.fail = "network",
                            !.outcome = IF to.fpc = "failed" THEN "threw" ELSE @]
    /\ UNCHANGED <<contractConfigs, cache, idx, abi, contracts, callLog,
                   prev, entryLog>>

\* `contracts.push({ abi, address, name })`
Pushed(cs, a, c) == Append(cs, [abi |-> a, address |-> c.address, name |-> c.name])

\* `abi = await parse({ response })` returns; then the push, and writeJSON is
\* called (its promise is pending).
ParseReturns(a) ==
    /\ UNCHANGED <<hvars, wvars, nvars, ran>>
    /\ fpc = "parse"
    /\ lastLive' = [lastLive EXCEPT ![cacheKey] = [abi |-> a, by |-> contract.name]]
    /\ abi' = a
    /\ contracts' = Pushed(contracts, a, contract)
    /\ callLog' = Append(callLog, "live")
    /\ step' = [step EXCEPT !.outcome = "pushed"]
    /\ fpc' = "write"
    /\ UNCHANGED <<contractConfigs, cache, idx, caught, thrown, prev, entryLog>>

\* `await parse({ response })` throws: the catch clause is entered.
ParseThrows ==
    LET to == OnTryError("parse") IN
    /\ UNCHANGED <<hvars, wvars, nvars, ran, lastLive>>
    /\ fpc = "parse"
    /\ fpc' = to.fpc
    /\ caught' = to.caught
    /\ thrown' = to.thrown
    /\ step' = [step EXCEPT !.fail = "parse",
                            !.outcome = IF to.fpc = "failed" THEN "threw" ELSE @]
    /\ UNCHANGED <<contractConfigs, cache, idx, abi, contracts, callLog,
                   prev, entryLog>>

\* Variant: the test on the cached value inverted (`if (abi) throw error`).
CatchClauseInverted(content, error) ==
    IF content = NoFile
    THEN [threw |-> "ENOENT", abi |-> NoAbi]
    ELSE IF Truthy(readJSON(content))
         THEN [threw |-> error, abi |-> NoAbi]
         ELSE [threw |-> "none", abi |-> readJSON(content)]

\* The catch clause:  abi = await fse.readJSON(file); if (!abi) throw error
\* fse.readJSON rejects with ENOENT when the file does not exist.
CatchClause(content, error) ==
    IF content = NoFile
    THEN [threw |-> "ENOENT", abi |-> NoAbi]
    ELSE IF ~Truthy(readJSON(content))
         THEN [threw |-> error, abi |-> NoAbi]
         ELSE [threw |-> "none", abi |-> readJSON(content)]

CacheRead ==
    LET r == CatchClause(cache[cacheKey], caught) IN
    /\ UNCHANGED <<hvars, wvars, nvars, ran, lastLive>>
    /\ fpc = "cacheRead"
    /\ step' = [step EXCEPT !.read = TRUE,
                            !.hit = (cache[cacheKey] # NoFile),
                            !.cached = IF cache[cacheKey] # NoFile
                                       THEN readJSON(cache[cacheKey]) ELSE NoAbi,
                            !.outcome = IF r.threw = "none" THEN "pushed" ELSE "threw"]
    /\ IF r.threw = "none"
       THEN /\ abi' = r.abi
            /\ contracts' = Pushed(contracts, r.abi, contract)
            /\ callLog' = Append(callLog, "fallback")
            /\ fpc' = "write"
            /\ UNCHANGED thrown
       ELSE /\ thrown' = r.threw
            /\ fpc' = "failed"
            /\ UNCHANGED <<abi, contracts, callLog>>
    /\ UNCHANGED <<contractConfigs, cache, idx, caught, prev, entryLog>>

\* Variant: the write left out.
CacheWithoutWrite(c, key, value) == c

\* What `await fse.writeJSON(file, abi)` leaves in the cache directory.
CacheAfterWrite(c, key, value) == [c EXCEPT ![key] = writeJSON(value)]

\* writeJSON completes; the loop moves to the next contract or returns.
WriteDone ==
    /\ UNCHANGED <<hvars, wvars, nvars, ran, lastLive>>
    /\ fpc = "write"
    /\ cache' = CacheAfterWrite(cache, cacheKey, abi)
    /\ step' = [step EXCEPT !.wrote = TRUE]
    /\ IF idx < Len(contractConfigs)
       THEN /\ idx' = idx + 1
            /\ fpc' = "request"
       ELSE /\ fpc' = "done"
            /\ UNCHANGED idx
    /\ UNCHANGED <<contractConfigs, abi, contracts, caught, thrown, callLog,
                   prev, entryLog>>

FetchNext ==
    \/ ContractsStart
    \/ RequestReturns
    \/ RequestThrows
    \/ NodeFetchResolves
    \/ NodeFetchRejects
    \/ \E a \in Abis : ParseReturns(a)
    \/ ParseThrows
    \/ CacheRead
    \/ WriteDone

FetchSpecInit == FetchInit /\ HardhatIdle /\ WatchIdle

SpecFetch == FetchSpecInit /\ [][FetchNext]_vars

(***************************************************************************)
(* Claims about fetch().contracts()                                        *)
(***************************************************************************)
stepContract == contractConfigs[step.i]
stepKey == getCacheKey(stepContract)

\* C1: when the live fetch or the parse fails and the contract's cache key has
\* no cache entry, contracts() fails and the error it rejects with is the
\* original fetch/parse error (not, say, the error of the cache read).
C1_OriginalErrorOnMiss ==
    (step.fail # "none" /\ step.read /\ ~step.hit)
        => (fpc = "failed" /\ thrown = caught)

\* C2: a call in which every live fetch succeeds, followed by a call with the
\* same configuration in which every live fetch fails: the second call
\* succeeds and returns, contract by contract, the ABIs of the first.
C2_CacheRoundTrip ==
    (fpc \in {"done", "failed"} /\ prev # NoPrev /\ AllFallback
        /\ thrown # "request")
        => (fpc = "done" /\ AbisOf(contracts) = prev)

\* C3: when the live fetch or parse fails for a contract whose cache key has
\* an entry, contracts() does not throw for that contract and the record
\* returned for it holds exactly the cached ABI with the configured address
\* and name.
C3_FallbackReturnsCached ==
    (step.fail # "none" /\ step.read /\ step.hit)
        => /\ step.outcome = "pushed"
           /\ fpc # "failed"
           /\ thrown = "none"
           /\ Len(contracts) >= step.i
           /\ contracts[step.i] = [abi |-> step.cached,
                                   address |-> stepContract.address,
                                   name |-> stepContract.name]

C3_Witness ==
    /\ fpc = "done"
    /\ step.fail = "network" /\ step.read /\ step.hit
    /\ contracts[step.i].abi = <<"f", "g">>

\* C4: every successful live fetch and parse is followed, before the loop
\* moves on or contracts() returns, by a write of the fetched ABI to the
\* contract's cache entry; and once contracts() has returned successfully
\* each contract's cache entry equals the ABI returned for it.
C4_WriteThrough ==
    /\ (step.outcome = "pushed" /\ fpc # "write")
          => (step.wrote /\ cache[stepKey] = writeJSON(contracts[step.i].abi))
    /\ fpc = "done"
          => \A i \in 1..Len(contractConfigs) :
                cache[getCacheKey(contractConfigs[i])] = writeJSON(contracts[i].abi)

\* C5: a failure of the network call and a failure of the parse step are
\* handled alike: the cache entry is read before any error surfaces, and
\* the outcome is the cached ABI on a hit and a failure on a miss, whichever
\* of the two steps failed.
C5_SameHandling ==
    step.fail # "none"
        => \/ (~step.read /\ fpc = "cacheRead" /\ thrown = "none")
           \/ /\ step.read
              /\ step.hit => /\ step.outcome = "pushed"
                             /\ fpc # "failed"
                             /\ contracts[step.i].abi = step.cached
              /\ ~step.hit => (step.outcome = "threw" /\ fpc = "failed")

C5_Witness ==
    /\ step.fail = "parse" /\ step.read /\ ~step.hit /\ fpc = "failed"
    /\ Len(contracts) = 1

\* The live ABI of the current contract was pushed and its write is pending.
LiveWritePending(k) ==
    /\ fpc = "write"
    /\ cacheKey = k
    /\ callLog[Len(callLog)] = "live"

\* C15: over any sequence of contracts() calls, every existing cache entry
\* holds the ABI of the most recent successful live fetch for its key (the
\* entry whose write is pending excepted); a fallback rewrites the entry
\* with the value it read; a failure on a cache miss creates no entry.
C15_CacheInvariant ==
    /\ \A k \in CacheKeys :
          (cache[k] # NoFile /\ ~LiveWritePending(k))
             => cache[k] = writeJSON(lastLive[k].abi)
    /\ (step.read /\ step.hit /\ step.wrote)
          => cache[stepKey] = writeJSON(step.cached)
    /\ (step.read /\ step.hit /\ fpc = "write")
          => (abi = step.cached /\ cache[stepKey] = writeJSON(step.cached))
    /\ (step.read /\ ~step.hit)
          => (fpc = "failed" /\ cache[stepKey] = NoFile)

C15_Witness ==
    /\ fpc = "done"
    /\ callLog = <<"live", "fallback">>
    /\ getCacheKey(contractConfigs[1]) # getCacheKey(contractConfigs[2])
    /\ cache[getCacheKey(contractConfigs[1])] # entryLog[getCacheKey(contractConfigs[1])]
    /\ entryLog[getCacheKey(contractConfigs[1])] # NoFile
    /\ cache[getCacheKey(contractConfigs[2])] = writeJSON(<<"f">>)

\* C17: under the default cache key, the ABI returned as a cache fallback
\* for a configured contract was fetched for that same contract (or is an
\* entry found in the cache directory at the start), never one fetched for
\* another configured contract.
C17_FallbackIsolation ==
    (step.read /\ step.hit) => lastLive[stepKey].by \in {"", stepContract.name}

(***************************************************************************)
(* hardhat(): contracts()                                                  *)
(***************************************************************************)
FetchIdle ==
    /\ contractConfigs = <<>>
    /\ cache = [k \in CacheKeys |-> NoFile]
    /\ fpc = "idle"
    /\ idx = 0
    /\ abi = NoAbi
    /\ contracts = <<>>
    /\ caught = "none"
    /\ thrown = "none"
    /\ step = NoStep
    /\ callLog = <<>>
    /\ prev = NoPrev
    /\ entryLog = cache
    /\ lastLive = LiveOf(cache)

\* `${packageManager} hardhat clean` / `${packageManager} hardhat compile`
defaultClean == "npm hardhat clean"
defaultBuild == "npm hardhat compile"

clean == Resolved(commands.clean, defaultClean)
build == Resolved(commands.build, defaultBuild)

\* contracts() is invoked; getPackageManager() is awaited when needed.
HardhatContractsStart ==
    /\ UNCHANGED <<fvars, wvars, nvars, ran, lastLive>>
    /\ hpc \in {"idle", "done", "failed"}
    /\ hpc' = "clean"
    /\ cleanState' = "none"
    /\ buildState' = "none"
    /\ sawDir' = "unknown"
    /\ scanned' = {}
    /\ returned' = NoResult
    /\ hook' = NoHook
    /\ UNCHANGED <<commands, namePrefix, exclude, artifactsExists, artifactsDir>>

\* Variant: the command's exit status is not looked at (execa's reject: false).
AfterCommandIgnoringFailure(ok, next) == next

\* `await execa(...)`: a failed command rejects, which rejects contracts().
AfterCommand(ok, next) == IF ok THEN next ELSE "failed"

\* `if (clean)` holds: execa starts the clean command.
CleanStarts ==
    /\ UNCHANGED <<fvars, wvars, nvars, ran, lastLive>>
    /\ hpc = "clean"
    /\ TruthyCommand(clean)
    /\ hpc' = "cleanRunning"
    /\ cleanState' = "running"
    /\ UNCHANGED <<commands, namePrefix, exclude, artifactsExists, artifactsDir,
                   buildState, sawDir, scanned, returned, hook>>

\* `if (clean)` does not hold: no clean command.
CleanSkipped ==
    /\ UNCHANGED <<fvars, wvars, nvars, ran, lastLive>>
    /\ hpc = "clean"
    /\ ~TruthyCommand(clean)
    /\ hpc' = "build"
    /\ UNCHANGED <<commands, namePrefix, exclude, artifactsExists, artifactsDir,
                   cleanState, buildState, sawDir, scanned, returned, hook>>

\* The clean command exits; it may have removed the artifacts directory.
CleanExits(ok, removes) ==
    /\ UNCHANGED <<fvars, wvars, nvars, ran, lastLive>>
    /\ hpc = "cleanRunning"
    /\ hpc' = AfterCommand(ok, "build")
    /\ cleanState' = IF ok THEN "ok" ELSE "failed"
    /\ IF removes
       THEN artifactsExists' = FALSE /\ artifactsDir' = {}
       ELSE UNCHANGED <<artifactsExists, artifactsDir>>
    /\ UNCHANGED <<commands, namePrefix, exclude, buildState, sawDir, scanned,
                   returned, hook>>

\* `if (build)` holds: execa starts the build command.
BuildStarts ==
    /\ UNCHANGED <<fvars, wvars, nvars, ran, lastLive>>
    /\ hpc = "build"
    /\ TruthyCommand(build)
    /\ hpc' = "buildRunning"
    /\ buildState' = "running"
    /\ UNCHANGED <<commands, namePrefix, exclude, artifactsExists, artifactsDir,
                   cleanState, sawDir, scanned, returned, hook>>

\* `if (build)` does not hold: no build command.
BuildSkipped ==
    /\ UNCHANGED <<fvars, wvars, nvars, ran, lastLive>>
    /\ hpc = "build"
    /\ ~TruthyCommand(build)
    /\ hpc' = "exists"
    /\ UNCHANGED <<commands, namePrefix, exclude, artifactsExists, artifactsDir,
                   cleanState, buildState, sawDir, scanned, returned, hook>>

\* The build command exits; it may have written the artifacts directory.
BuildExits(ok, writes, files) ==
    /\ UNCHANGED <<fvars, wvars, nvars, ran, lastLive>>
    /\ hpc = "buildRunning"
    /\ hpc' = AfterCommand(ok, "exists")
    /\ buildState' = IF ok THEN "ok" ELSE "failed"
    /\ IF writes
       THEN artifactsExists' = TRUE /\ artifactsDir' = files
       ELSE UNCHANGED <<artifactsExists, artifactsDir>>
    /\ UNCHANGED <<commands, namePrefix, exclude, cleanState, sawDir, scanned,
                   returned, hook>>

\* Variant: the check left out, a missing directory scanned as an empty one.
AfterExistsCheckMissing(exists) == "scan"

\* `if (!fse.pathExistsSync(artifactsDirectory)) throw new Error(...)`
AfterExistsCheck(exists) == IF exists THEN "scan" ELSE "failed"

ExistsCheck ==
    /\ UNCHANGED <<fvars, wvars, nvars, ran, lastLive>>
    /\ hpc = "exists"
    /\ sawDir' = IF artifactsExists THEN "present" ELSE "absent"
    /\ hpc' = AfterExistsCheck(artifactsExists)
    /\ UNCHANGED <<commands, namePrefix, exclude, artifactsExists, artifactsDir,
                   cleanState, buildState, scanned, returned, hook>>

\* getArtifactPaths, the loop over the paths, `return contracts`.
Scan ==
    /\ UNCHANGED <<fvars, wvars, nvars, ran, lastLive>>
    /\ hpc = "scan"
    /\ scanned' = artifactsDir
    /\ returned' = ScanContracts(artifactsDir)
    /\ hpc' = "done"
    /\ UNCHANGED <<commands, namePrefix, exclude, artifactsExists, artifactsDir,
                   cleanState, buildState, sawDir, hook>>

(***************************************************************************)
(* hardhat(): the watch hooks, and the artifacts changing under them       *)
(***************************************************************************)
Settled == hpc \in {"idle", "done", "failed"}

\* The watch hooks run once contracts() has settled; what the call found is
\* not kept while the directory is watched.
CallForgotten ==
    /\ hpc' = "idle"
    /\ cleanState' = "none"
    /\ buildState' = "none"
    /\ sawDir' = "unknown"
    /\ scanned' = {}
    /\ returned' = NoResult

\* A rebuild writes an artifact file. What an earlier hook returned is about
\* another directory from now on, and is forgotten.
ArtifactWritten(i) ==
    /\ UNCHANGED <<fvars, wvars, nvars, ran, lastLive>>
    /\ Settled
    /\ artifactsExists
    /\ i \notin artifactsDir
    /\ artifactsDir' = artifactsDir \cup {i}
    /\ CallForgotten
    /\ hook' = NoHook
    /\ UNCHANGED <<commands, namePrefix, exclude, artifactsExists>>

\* A rebuild removes an artifact file.
ArtifactRemoved(i) ==
    /\ UNCHANGED <<fvars, wvars, nvars, ran, lastLive>>
    /\ Settled
    /\ i \in artifactsDir
    /\ artifactsDir' = artifactsDir \ {i}
    /\ CallForgotten
    /\ hook' = NoHook
    /\ UNCHANGED <<commands, namePrefix, exclude, artifactsExists>>

\* onAdd(path) / onChange(path): `return getContract(path)`; readJSON rejects
\* when the file is not there.
OnAddOrChange(kind, p) ==
    /\ UNCHANGED <<fvars, wvars, nvars, ran, lastLive>>
    /\ Settled
    /\ hook' = IF p \in artifactsDir
               THEN [NoHook EXCEPT !.kind = kind, !.path = p,
                                   !.contract = getContract(p)]
               ELSE [NoHook EXCEPT !.kind = kind, !.path = p, !.threw = TRUE]
    /\ CallForgotten
    /\ UNCHANGED <<commands, namePrefix, exclude, artifactsExists, artifactsDir>>

\* basename(path), extname(path)
basename(i) == Files[i].file
extname(i) ==
    IF Len(Files[i].file) < 2 THEN <<>> ELSE <<Files[i].file[Len(Files[i].file)]>>

\* filename.replace(extension, ''): the first occurrence of ".<ext>" goes.
\* The first segment follows no dot, so it is never part of an occurrence.
ReplaceFirst(segs, ext) ==
    LET at == { k \in 2..Len(segs) : ext # <<>> /\ segs[k] = ext[1] } IN
    IF at = {} THEN segs
    ELSE LET k == CHOOSE j \in at : \A m \in at : j <= m
         IN SubSeq(segs, 1, k - 1) \o SubSeq(segs, k + 1, Len(segs))

\* Variant: the prefix forgotten in the guessed name.
removedContractNameNoPrefix(p) == Join(ReplaceFirst(basename(p), extname(p)))

\* `${namePrefix}${filename.replace(extension, '')}`
removedContractName(p) ==
    namePrefix \o Join(ReplaceFirst(basename(p), extname(p)))

\* Variant: the removed path itself left out of the scan.
onRemoveExcludingRemoved(p, present) ==
    LET paths == getArtifactPaths(present) IN
    IF \E k \in 1..Len(paths) :
          paths[k] # p /\ getContract(paths[k]).name = removedContractName(p)
    THEN Undefined
    ELSE removedContractName(p)

\* onRemove(path): undefined when a scanned artifact has the guessed name.
onRemove(p, present) ==
    LET paths == getArtifactPaths(present) IN
    IF \E k \in 1..Len(paths) : getContract(paths[k]).name = removedContractName(p)
    THEN Undefined
    ELSE removedContractName(p)

OnRemove(p) ==
    /\ UNCHANGED <<fvars, wvars, nvars, ran, lastLive>>
    /\ Settled
    /\ hook' = [NoHook EXCEPT !.kind = "remove", !.path = p,
                              !.result = onRemove(p, artifactsDir)]
    /\ CallForgotten
    /\ UNCHANGED <<commands, namePrefix, exclude, artifactsExists, artifactsDir>>

HardhatNext ==
    \/ HardhatContractsStart
    \/ CleanStarts
    \/ CleanSkipped
    \/ \E ok \in BOOLEAN, removes \in BOOLEAN : CleanExits(ok, removes)
    \/ BuildStarts
    \/ BuildSkipped
    \/ \E ok \in BOOLEAN, writes \in BOOLEAN, files \in SUBSET Paths :
          BuildExits(ok, writes, files)
    \/ ExistsCheck
    \/ Scan
    \/ \E i \in Paths : ArtifactWritten(i)
    \/ \E i \in Paths : ArtifactRemoved(i)
    \/ \E kind \in {"add", "change"}, p \in Paths : OnAddOrChange(kind, p)
    \/ \E p \in Paths : OnRemove(p)

HardhatSpecInit == HardhatInit /\ FetchIdle /\ WatchIdle

SpecHardhat == HardhatSpecInit /\ [][HardhatNext]_vars

(***************************************************************************)
(* Claims about hardhat()                                                  *)
(***************************************************************************)
\* The file name without its extension, and the name derived from it.
WithoutExtension(i) ==
    IF Len(Files[i].file) < 2 THEN Files[i].file
    ELSE SubSeq(Files[i].file, 1, Len(Files[i].file) - 1)
DerivedName(i) == namePrefix \o Join(WithoutExtension(i))

\* The name of the contract an artifact yields: prefix, then contractName.
YieldedName(i) ==
    namePrefix \o (IF Files[i].json.contractName = Undefined
                   THEN "undefined" ELSE Files[i].json.contractName)

\* The artifacts of a directory: matched by an include and by no exclude glob.
IsArtifact(i) ==
    /\ MatchesGlob(Star(<<"json">>), Files[i])
    /\ exclude = defaultExcludes =>
          /\ "build-info" \notin { Files[i].dir[k] : k \in 1..Len(Files[i].dir) }
          /\ ~(Len(Files[i].file) >= 3
               /\ Files[i].file[Len(Files[i].file) - 1] = "dbg")
ArtifactsIn(present) == { i \in present : IsArtifact(i) }

\* C6: onRemove(path) returns undefined when some other artifact now in the
\* artifacts directory yields a contract named like the name derived from the
\* removed file (prefix + file name without extension), and returns that
\* derived name when no artifact now in the directory yields that name.
C6_OnRemove ==
    hook.kind = "remove" =>
        LET p == hook.path
            same == { i \in ArtifactsIn(artifactsDir) : YieldedName(i) = DerivedName(p) }
        IN /\ same \ {p} # {} => hook.result = Undefined
           /\ same = {} => hook.result = DerivedName(p)

C6_Witness ==
    /\ hook.kind = "remove" /\ hook.path = 1
    /\ namePrefix = "Pre"
    /\ 4 \in artifactsDir /\ 1 \notin artifactsDir
    /\ hook.result = Undefined

\* C7: contracts() returns one record for each artifact file (matched by the
\* include globs and by no exclude glob) whose abi is a non-empty sequence,
\* named prefix + contractName, and none for an empty or missing abi.
C7_Contracts ==
    hpc = "done" =>
        LET with == { i \in ArtifactsIn(scanned) :
                        Files[i].json.abi # NoAbi /\ Files[i].json.abi # <<>> }
            Record(i) == [abi |-> Files[i].json.abi, name |-> YieldedName(i)]
        IN /\ Len(returned) = Cardinality(with)
           /\ \A i \in with : \E k \in 1..Len(returned) : returned[k] = Record(i)
           /\ \A k \in 1..Len(returned) : \E i \in with : returned[k] = Record(i)

C7_Witness ==
    /\ hpc = "done"
    /\ scanned = Paths
    /\ namePrefix = "Pre"
    /\ exclude = <<>>
    /\ Len(returned) = 3

\* C8: clean (when there is one) has run to completion before build starts,
\* build (when there is one) before the artifact scan; when clean or build
\* fails, or the artifacts directory is not there after them, contracts()
\* fails, no later step runs and nothing is returned.
HasCommand(setting) == setting # False /\ setting # ""

C8_Lifecycle ==
    /\ buildState # "none" => (HasCommand(commands.clean) => cleanState = "ok")
    /\ cleanState \in {"running", "failed"} => buildState = "none"
    /\ (sawDir # "unknown" \/ hpc \in {"scan", "done"}) =>
          /\ HasCommand(commands.clean) => cleanState = "ok"
          /\ HasCommand(commands.build) => buildState = "ok"
    /\ (cleanState = "failed" \/ buildState = "failed") =>
          /\ hpc = "failed"
          /\ sawDir = "unknown"
          /\ returned = NoResult
    /\ sawDir = "absent" => (hpc = "failed" /\ returned = NoResult)
    /\ hpc = "done" => (sawDir = "present" /\ returned # NoResult)
    /\ hpc # "done" => returned = NoResult

C8_Witness ==
    /\ hpc = "failed"
    /\ cleanState = "ok" /\ buildState = "ok"
    /\ sawDir = "absent"

\* C16: onRemove(path) scans the artifacts now present, the removed path
\* included: handled while the file of path is still in the artifacts
\* directory and yields the name derived from its file name, onRemove
\* returns undefined, even when no other artifact yields that name.
C16_RemovedPathScanned ==
    (hook.kind = "remove"
        /\ hook.path \in ArtifactsIn(artifactsDir)
        /\ YieldedName(hook.path) = DerivedName(hook.path))
      => hook.result = Undefined

C16_Witness ==
    /\ hook.kind = "remove" /\ hook.path = 3
    /\ 3 \in ArtifactsIn(artifactsDir)
    /\ \A i \in ArtifactsIn(artifactsDir) \ {3} : YieldedName(i) # DerivedName(3)
    /\ hook.result = Undefined

(***************************************************************************)
(* hardhat(): watch.command                                                *)
(***************************************************************************)
HardhatQuiet ==
    /\ namePrefix = ""
    /\ exclude = defaultExcludes
    /\ artifactsExists = FALSE
    /\ artifactsDir = {}
    /\ hpc = "idle"
    /\ cleanState = "none"
    /\ buildState = "none"
    /\ sawDir = "unknown"
    /\ scanned = {}
    /\ returned = NoResult
    /\ hook = NoHook

WatchInit ==
    /\ commands \in [clean : {Undefined}, build : {Undefined},
                     rebuild : CommandSettings]
    /\ HardhatQuiet
    /\ WatchIdle

\* Variant: watch.command defined whatever commands.rebuild is.
WatchCommandAlwaysDefined == TRUE

\* `commands.rebuild ?? true ? async () => {...} : undefined`
WatchCommandDefined == TruthyCommand(Resolved(commands.rebuild, "<true>"))

\* The plugin's `watch` record: which of its members are defined.
WatchObject ==
    [command  |-> WatchCommandDefined,
     paths    |-> TRUE,
     onAdd    |-> TRUE,
     onChange |-> TRUE,
     onRemove |-> TRUE]

\* Variant: process.on, a listener that stays after it was called.
process_on(ls, sig) == [ls EXCEPT ![sig] = "on"]

\* process.once(sig, shutdown)
process_once(ls, sig) == [ls EXCEPT ![sig] = "once"]

\* Variant: no test of the event name.
QualifiesAlways(event) == TRUE

\* The listener goes on unless
\* `event !== 'change' && event !== 'add' && event !== 'unlink'`.
Qualifies(event) == ~(event # "change" /\ event # "add" /\ event # "unlink")

\* chokidar's FSWatcher.close(): a closed watcher returns the promise of its
\* first close; nothing throws.
close(w) == [watcher |-> "closed", threw |-> FALSE]

\* The CLI calls watch.command: the log line, `await import('chokidar')`.
WatchCommandStarts ==
    /\ UNCHANGED <<fvars, hvars, nvars, ran, lastLive>>
    /\ alive
    /\ wpc = "idle"
    /\ WatchCommandDefined
    /\ wpc' = "importing"
    /\ UNCHANGED <<alive, watcher, handler, listeners, fired, removed, closeCalls,
                   closeThrew, delivered, rebuildStarted, rebuildRunning,
                   rebuildCommand, signals>>

\* watcher.on('all', ...), process.once('SIGINT', ...), process.once('SIGTERM', ...)
Registered(rebuild) ==
    /\ rebuildCommand' = rebuild
    /\ handler' = TRUE
    /\ listeners' = process_once(process_once(listeners, "SIGINT"), "SIGTERM")
    /\ wpc' = "watching"

\* watch(sourcesDirectory, ...); with a rebuild command given nothing is
\* awaited before the listeners are registered.
WatcherOpens ==
    /\ UNCHANGED <<fvars, hvars, nvars, ran, lastLive>>
    /\ alive
    /\ wpc = "importing"
    /\ watcher' = "open"
    /\ IF TruthyCommand(commands.rebuild) /\ commands.rebuild # Undefined
       THEN Registered(commands.rebuild)
       ELSE /\ wpc' = "resolving"
            /\ UNCHANGED <<rebuildCommand, handler, listeners>>
    /\ UNCHANGED <<alive, fired, removed, closeCalls, closeThrew, delivered,
                   rebuildStarted, rebuildRunning, signals>>

\* `${await getPackageManager()} hardhat compile` resolves.
PackageManagerResolved ==
    /\ UNCHANGED <<fvars, hvars, nvars, ran, lastLive>>
    /\ alive
    /\ wpc = "resolving"
    /\ Registered(defaultBuild)
    /\ UNCHANGED <<alive, watcher, fired, removed, closeCalls, closeThrew,
                   delivered, rebuildStarted, rebuildRunning, signals>>

Delivered == delivered["add"] + delivered["addDir"] + delivered["change"]
                + delivered["unlink"] + delivered["unlinkDir"]

\* The watcher emits 'all' with `event`; the listener runs up to its await.
FsEvent(event) ==
    /\ UNCHANGED <<fvars, hvars, nvars, lastLive>>
    /\ alive
    /\ ran' = IF Qualifies(event) THEN ran \cup {rebuildCommand} ELSE ran
    /\ watcher = "open"
    /\ handler
    /\ Delivered < MaxEvents
    /\ delivered' = [delivered EXCEPT ![event] = @ + 1]
    /\ IF Qualifies(event)
       THEN /\ rebuildStarted' = rebuildStarted + 1
            /\ rebuildRunning' = rebuildRunning + 1
       ELSE UNCHANGED <<rebuildStarted, rebuildRunning>>
    /\ UNCHANGED <<alive, wpc, watcher, handler, listeners, fired, removed,
                   closeCalls, closeThrew, rebuildCommand, signals>>

\* A rebuild command exits. The listener awaits the piped stream, not the
\* process: a failure is an unhandled rejection, which may end the process.
RebuildExits(ok, ends) ==
    /\ UNCHANGED <<fvars, hvars, nvars, ran, lastLive>>
    /\ alive
    /\ rebuildRunning > 0
    /\ ends => ~ok
    /\ rebuildRunning' = rebuildRunning - 1
    /\ alive' = ~ends
    /\ UNCHANGED <<wpc, watcher, handler, listeners, fired, removed, closeCalls,
                   closeThrew, delivered, rebuildStarted, rebuildCommand, signals>>

\* The process receives `sig`: without a listener it is terminated; with one,
\* shutdown() runs, `await watcher.close()`.
Signal(sig) ==
    /\ UNCHANGED <<fvars, hvars, nvars, ran, lastLive>>
    /\ alive
    /\ signals < MaxSignals
    /\ signals' = signals + 1
    /\ IF listeners[sig] = "none"
       THEN /\ alive' = FALSE
            /\ UNCHANGED <<watcher, listeners, fired, removed, closeCalls,
                           closeThrew>>
       ELSE /\ fired' = [fired EXCEPT ![sig] = @ + 1]
            /\ IF listeners[sig] = "once"
               THEN /\ listeners' = [listeners EXCEPT ![sig] = "none"]
                    /\ removed' = [removed EXCEPT ![sig] = @ + 1]
               ELSE UNCHANGED <<listeners, removed>>
            /\ closeCalls' = closeCalls + 1
            /\ watcher' = close(watcher).watcher
            /\ closeThrew' = (closeThrew \/ close(watcher).threw)
            /\ UNCHANGED alive
    /\ UNCHANGED <<wpc, handler, delivered, rebuildStarted, rebuildRunning,
                   rebuildCommand>>

WatchNext ==
    \/ WatchCommandStarts
    \/ WatcherOpens
    \/ PackageManagerResolved
    \/ \E event \in EventKinds : FsEvent(event)
    \/ \E ok \in BOOLEAN, ends \in BOOLEAN : RebuildExits(ok, ends)
    \/ \E sig \in Signals : Signal(sig)

WatchSpecInit == WatchInit /\ FetchIdle

SpecWatch == WatchSpecInit /\ [][WatchNext]_vars

\* C9: an event of a kind other than add, change, unlink never starts the
\* rebuild command: the rebuild commands started are as many as the events
\* of kind add, change or unlink delivered to the sources watcher's listener.
C9_EventFiltering ==
    rebuildStarted = delivered["add"] + delivered["change"] + delivered["unlink"]

C9_Witness ==
    /\ delivered["addDir"] = 1 /\ delivered["unlinkDir"] = 1
    /\ delivered["unlink"] = 1
    /\ rebuildStarted = 1

\* C10: whatever SIGINT and SIGTERM the process receives after the watch
\* command started, no call of watcher.close() throws, a second one included,
\* and no signal listener is called or removed more than once.
C10_ShutdownRepeatSafe ==
    /\ ~closeThrew
    /\ \A s \in Signals : fired[s] <= 1 /\ removed[s] <= 1
    /\ closeCalls = fired["SIGINT"] + fired["SIGTERM"]

C10_Witness ==
    /\ closeCalls = 2
    /\ fired["SIGINT"] = 1 /\ fired["SIGTERM"] = 1
    /\ signals = 2
    /\ alive
    /\ watcher = "closed"

\* C11: a SIGINT or SIGTERM handled by the watch command closes its watcher;
\* the shutdown listener is registered once per signal; and once the watcher
\* is closed no listener registered by the watch command is left on the
\* process.
C11_ShutdownLeavesNoListener ==
    /\ \A s \in Signals : fired[s] > 0 => watcher = "closed"
    /\ wpc = "watching" =>
          \A s \in Signals : listeners[s] = "once" \/ fired[s] = 1
    /\ watcher = "closed" => \A s \in Signals : listeners[s] = "none"

\* C13: the rebuild started by an event has run to completion before the
\* rebuild of a later event starts: at most one rebuild command is running.
C13_OneRebuildAtATime == rebuildRunning <= 1

\* The command a rebuild is expected to run: the configured one, the default
\* one when none is configured.
ExpectedRebuild ==
    IF commands.rebuild = Undefined THEN defaultBuild ELSE commands.rebuild

QualifyingDelivered ==
    delivered["add"] + delivered["change"] + delivered["unlink"]

\* C20: with commands.rebuild false, watch.command is undefined: no watcher
\* is opened, no rebuild command runs and no signal listener is registered,
\* while paths, onAdd, onChange and onRemove are defined; with commands.rebuild
\* undefined or a non-empty string, watch.command is defined and every
\* qualifying event runs that command (the default one when undefined).
C20_RebuildSwitch ==
    /\ commands.rebuild = False =>
          /\ ~WatchObject.command
          /\ wpc = "idle" /\ watcher = "none" /\ ~handler
          /\ rebuildStarted = 0 /\ ran = {}
          /\ \A s \in Signals : listeners[s] = "none" /\ fired[s] = 0
          /\ WatchObject.paths /\ WatchObject.onAdd
          /\ WatchObject.onChange /\ WatchObject.onRemove
    /\ commands.rebuild \notin {False, ""} =>
          /\ WatchObject.command
          /\ rebuildStarted = QualifyingDelivered
          /\ ran \subseteq {ExpectedRebuild}
          /\ rebuildStarted > 0 => ran = {ExpectedRebuild}

C20_Witness ==
    /\ commands.rebuild = Undefined
    /\ delivered["change"] > 0
    /\ ran = {defaultBuild}

(***************************************************************************)
(* hardhat(): validate()                                                   *)
(***************************************************************************)
\* What getPackageManager() detects in the environment.
PackageManagers == {"npm", "yarn", "pnpm"}

ValidateInit ==
    /\ commands \in [clean : CommandSettings, build : CommandSettings,
                     rebuild : CommandSettings]
    /\ HardhatQuiet

\* Variant: the test of contracts() (clean and build only).
ProbeNeededCleanBuildOnly ==
    commands.clean = Undefined \/ commands.build = Undefined

\* `commands.clean === undefined || commands.build === undefined ||
\*  commands.rebuild === undefined`
ProbeNeeded ==
    \/ commands.clean = Undefined
    \/ commands.build = Undefined
    \/ commands.rebuild = Undefined

\* The error of the catch clause.
InstallError(pm) ==
    "hardhat must be installed to use Hardhat plugin. To install, run: "
        \o pm \o " " \o (IF pm = "npm" THEN "install --save" ELSE "add")
        \o " hardhat."

\* validate() is invoked: it returns at once, or awaits getPackageManager().
ValidateStarts ==
    /\ UNCHANGED <<fvars, hvars, wvars, ovars, tvars, ran, lastLive>>
    /\ vpc \in {"idle", "done", "failed"}
    /\ vpc' = IF ProbeNeeded THEN "resolving" ELSE "done"
    /\ probed' = "no"
    /\ packageManager' = Undefined
    /\ vthrown' = "none"

\* getPackageManager() resolves; execa(packageManager, ['hardhat', '--version'])
ProbeStarts(pm) ==
    /\ UNCHANGED <<fvars, hvars, wvars, ovars, tvars, ran, lastLive>>
    /\ vpc = "resolving"
    /\ packageManager' = pm
    /\ probed' = "running"
    /\ vpc' = "probing"
    /\ UNCHANGED vthrown

\* The probe exits: validate() returns, or the catch clause throws.
ProbeExits(ok) ==
    /\ UNCHANGED <<fvars, hvars, wvars, ovars, tvars, ran, lastLive>>
    /\ vpc = "probing"
    /\ probed' = IF ok THEN "ok" ELSE "failed"
    /\ vpc' = IF ok THEN "done" ELSE "failed"
    /\ vthrown' = IF ok THEN "none" ELSE InstallError(packageManager)
    /\ UNCHANGED packageManager

ValidateNext ==
    \/ ValidateStarts
    \/ \E pm \in PackageManagers : ProbeStarts(pm)
    \/ \E ok \in BOOLEAN : ProbeExits(ok)

ValidateSpecInit == ValidateInit /\ FetchIdle /\ WatchIdle

SpecValidate == ValidateSpecInit /\ [][ValidateNext]_vars

\* A command the caller supplied: a string or false.
Supplied(c) == commands[c] = False \/ commands[c] \in {"", "make artifacts"}
AllSupplied == Supplied("clean") /\ Supplied("build") /\ Supplied("rebuild")

\* C12: validate() runs the `hardhat --version` probe if and only if one of
\* commands.clean, commands.build, commands.rebuild was not supplied; with
\* all three supplied it succeeds without probing; a probe that fails makes
\* validate() fail with the install-instruction error.
C12_ValidateProbe ==
    /\ probed # "no" => ~AllSupplied
    /\ vpc \in {"done", "failed"} => (probed # "no" <=> ~AllSupplied)
    /\ (AllSupplied /\ vpc # "idle") => (vpc = "done" /\ vthrown = "none")
    /\ probed = "failed" =>
          /\ vpc = "failed"
          /\ vthrown = "hardhat must be installed to use Hardhat plugin. To install, run: "
                         \o packageManager
                         \o (IF packageManager = "npm" THEN " install --save" ELSE " add")
                         \o " hardhat."
    /\ vpc = "failed" => probed = "failed"
    /\ probed = "ok" => (vpc = "done" /\ vthrown = "none")

C12_Witness ==
    /\ commands = [clean |-> "make artifacts", build |-> False, rebuild |-> Undefined]
    /\ probed = "failed"
    /\ vpc = "failed"
    /\ packageManager = "yarn"

(***************************************************************************)
(* fetch(): a second contracts() call on the same plugin, started while    *)
(* the first one may be running. Both use the same cache directory.        *)
(***************************************************************************)
secondContract == contractConfigs[bidx]
secondKey == getCacheKey(secondContract)

\* The parts of the first call's state the second call never touches.
firstCall == <<contractConfigs, fpc, idx, abi, contracts, caught, thrown,
               step, callLog, prev, entryLog>>

\* The ABIs the live fetches of the second call return.
SecondAbis == { <<"f", "g">> }

\* contracts() is invoked a second time (once).
SecondStart ==
    /\ UNCHANGED <<hvars, wvars, vvars, tvars, ran, lastLive>>
    /\ bpc = "idle"
    /\ bpc' = "fetch"
    /\ bidx' = 1
    /\ babi' = NoAbi
    /\ UNCHANGED <<firstCall, cache>>

\* request() throws in the second call.
SecondRequestThrows ==
    /\ UNCHANGED <<hvars, wvars, vvars, tvars, ran, lastLive>>
    /\ bpc = "fetch"
    /\ bpc' = "failed"
    /\ UNCHANGED <<firstCall, cache, bidx, babi>>

\* request, nodeFetch and parse succeed in the second call; the push, and
\* writeJSON is called.
SecondLive(a) ==
    /\ UNCHANGED <<hvars, wvars, vvars, tvars, ran>>
    /\ bpc = "fetch"
    /\ lastLive' = [lastLive EXCEPT
                       ![secondKey] = [abi |-> a, by |-> secondContract.name]]
    /\ babi' = a
    /\ bpc' = "write"
    /\ UNCHANGED <<firstCall, cache, bidx>>

\* nodeFetch or parse fails in the second call: the catch clause.
SecondFallback ==
    LET r == CatchClause(cache[secondKey], "network") IN
    /\ UNCHANGED <<hvars, wvars, vvars, tvars, ran, lastLive>>
    /\ bpc = "fetch"
    /\ IF r.threw = "none"
       THEN babi' = r.abi /\ bpc' = "write"
       ELSE bpc' = "failed" /\ UNCHANGED babi
    /\ UNCHANGED <<firstCall, cache, bidx>>

\* writeJSON of the second call completes.
SecondWriteDone ==
    /\ UNCHANGED <<hvars, wvars, vvars, tvars, ran, lastLive>>
    /\ bpc = "write"
    /\ cache' = CacheAfterWrite(cache, secondKey, babi)
    /\ IF bidx < Len(contractConfigs)
       THEN bidx' = bidx + 1 /\ bpc' = "fetch"
       ELSE bpc' = "done" /\ UNCHANGED bidx
    /\ UNCHANGED <<firstCall, babi>>

OverlapNext ==
    \/ FetchNext
    \/ SecondStart
    \/ SecondRequestThrows
    \/ \E a \in SecondAbis : SecondLive(a)
    \/ SecondFallback
    \/ SecondWriteDone

\* Both calls start on an empty cache directory.
OverlapSpecInit ==
    /\ FetchInit
    /\ \A k \in CacheKeys : cache[k] = NoFile
    /\ HardhatIdle
    /\ WatchIdle

SpecFetchOverlap == OverlapSpecInit /\ [][OverlapNext]_vars

\* C14: two writes to the cache entry of one key never overlap in time, two
\* overlapping contracts() calls included; within one call the cache write
\* of contract i has completed before the request for contract i+1.
C14_WritesDoNotRace ==
    /\ ~(fpc = "write" /\ bpc = "write" /\ cacheKey = secondKey)
    /\ (fpc = "request" /\ idx > 1) => (step.i = idx - 1 /\ step.wrote)
    /\ fpc \in {"request", "fetch", "parse", "cacheRead"}
          => Len(contracts) = idx - 1

(***************************************************************************)
(* fetch(): contracts() over a configuration of LongConfig contracts,      *)
(* starting on an empty cache directory.                                   *)
(***************************************************************************)
LongInit ==
    /\ contractConfigs \in ConfigsOfLen(LongConfig)
    /\ cache = [k \in CacheKeys |-> NoFile]
    /\ fpc = "idle"
    /\ idx = 0
    /\ abi = NoAbi
    /\ contracts = <<>>
    /\ caught = "none"
    /\ thrown = "none"
    /\ step = NoStep
    /\ callLog = <<>>
    /\ prev = NoPrev
    /\ entryLog = cache
    /\ lastLive = LiveOf(cache)
    /\ HardhatIdle
    /\ WatchIdle

SpecFetchLong == LongInit /\ [][FetchNext]_vars

keyOf(j) == getCacheKey(contractConfigs[j])

\* C19: when contracts() fails at the i-th contract (fetch or parse failure
\* with a cache miss) it returns no list, no request was issued for a later
\* contract, the entries of contracts 1..i-1 hold the ABIs obtained for them
\* in this call, and the entries of contract i and of the later contracts
\* are as they were before the call.
C19_PartialFailure ==
    (fpc = "failed" /\ step.read /\ ~step.hit) =>
        /\ thrown # "none"
        /\ idx = step.i
        /\ Len(contracts) = step.i - 1
        /\ \A j \in 1..(step.i - 1) :
              cache[keyOf(j)] = writeJSON(contracts[j].abi)
        /\ \A j \in step.i..Len(contractConfigs) :
              cache[keyOf(j)] = entryLog[keyOf(j)]

(***************************************************************************)
(* hardhat(): the contract set kept up to date through the watch hooks.    *)
(* The set starts as what contracts() returned; every add, change and      *)
(* unlink event of a watched artifact is handed to onAdd, onChange or      *)
(* onRemove and the answer is applied to the set by name.                  *)
(***************************************************************************)
Range(seq) == { seq[k] : k \in 1..Len(seq) }

\* Insert the record, or replace the record of that name.
Upsert(set, c) == { x \in set : x.name # c.name } \cup {c}

\* Delete the record of that name.
Delete(set, name) == { x \in set : x.name # name }

IncrementalInit ==
    /\ commands = [clean |-> False, build |-> False, rebuild |-> False]
    /\ namePrefix \in {"", "Pre"}
    /\ exclude = defaultExcludes
    /\ artifactsExists = TRUE
    /\ artifactsDir \in SUBSET Paths
    /\ hpc = "idle"
    /\ cleanState = "none"
    /\ buildState = "none"
    /\ sawDir = "unknown"
    /\ scanned = {}
    /\ returned = NoResult
    /\ hook = NoHook

hardhatCall == <<commands, namePrefix, exclude, artifactsExists, hpc,
                 cleanState, buildState, sawDir, scanned, returned>>

\* The full pass: contracts() with no clean and no build command scans the
\* artifacts directory; what it returns becomes the contract set.
FullPass ==
    /\ UNCHANGED <<fvars, wvars, ovars, vvars, ran, lastLive>>
    /\ tracked = NoTracked
    /\ tracked' = Range(ScanContracts(artifactsDir))
    /\ hook' = NoHook
    /\ UNCHANGED <<hardhatCall, artifactsDir>>

\* A file matched by watch.paths is written: 'add', onAdd(path).
WatchAdd(i) ==
    /\ UNCHANGED <<fvars, wvars, ovars, vvars, ran, lastLive>>
    /\ tracked # NoTracked
    /\ Globbed(i)
    /\ i \notin artifactsDir
    /\ artifactsDir' = artifactsDir \cup {i}
    /\ hook' = [NoHook EXCEPT !.kind = "add", !.path = i,
                              !.contract = getContract(i)]
    /\ tracked' = Upsert(tracked, getContract(i))
    /\ UNCHANGED hardhatCall

\* A file matched by watch.paths is rewritten: 'change', onChange(path).
WatchChange(i) ==
    /\ UNCHANGED <<fvars, wvars, ovars, vvars, ran, lastLive>>
    /\ tracked # NoTracked
    /\ Globbed(i)
    /\ i \in artifactsDir
    /\ hook' = [NoHook EXCEPT !.kind = "change", !.path = i,
                              !.contract = getContract(i)]
    /\ tracked' = Upsert(tracked, getContract(i))
    /\ UNCHANGED <<hardhatCall, artifactsDir>>

\* A file matched by watch.paths is deleted: 'unlink', onRemove(path) scans
\* the files left.
WatchUnlink(i) ==
    LET left == artifactsDir \ {i}
        name == onRemove(i, left)
    IN /\ UNCHANGED <<fvars, wvars, ovars, vvars, ran, lastLive>>
       /\ tracked # NoTracked
       /\ Globbed(i)
       /\ i \in artifactsDir
       /\ artifactsDir' = left
       /\ hook' = [NoHook EXCEPT !.kind = "remove", !.path = i, !.result = name]
       /\ tracked' = IF name = Undefined THEN tracked ELSE Delete(tracked, name)
       /\ UNCHANGED hardhatCall

IncrementalNext ==
    \/ FullPass
    \/ \E i \in Paths : WatchAdd(i)
    \/ \E i \in Paths : WatchChange(i)
    \/ \E i \in Paths : WatchUnlink(i)

IncrementalSpecInit == IncrementalInit /\ FetchIdle /\ WatchIdle

SpecIncremental == IncrementalSpecInit /\ [][IncrementalNext]_vars

\* C18: after any sequence of add, change and unlink events applied through
\* the hooks, the contract set equals what a fresh scan by contracts() of
\* the artifacts directory returns: same names, same ABIs, no empty ABI.
C18_IncrementalEqualsFull ==
    tracked # NoTracked => tracked = Range(ScanContracts(artifactsDir))

====
